---- MODULE Spec2Model ----
(***************************************************************************)
(* A model of validapi: the HTTP client's retry loop, the ValidationResult *)
(* container, the OpenAPI parser's endpoint queries and the validation     *)
(* engine's per-endpoint orchestration and run summary.                    *)
(***************************************************************************)
EXTENDS Integers, Sequences, FiniteSets, TLC

VARIABLES
    max_retries,   \* HTTPClient.max_retries
    httpCall,      \* the last HTTPClient.request call: its transport plan, events and outcome
    vr,            \* one ValidationResult object: valid, errors, warnings
    vrLast,        \* the last call that made or changed it (or the last validator
                   \* call), with its arguments
    parser,        \* ValidationEngine.parser: the loaded specification and its attributes
    config,        \* the execution.* settings the engine reads
    results,       \* ValidationEngine.results
    engCall        \* the last ValidationEngine call: its arguments, environment and outcome

vars == <<max_retries, httpCall, vr, vrLast, parser, config, results, engCall>>

----------------------------------------------------------------------------
(* Bounds of the model *)

MaxRetriesBound == 3     \* largest validation.max_retries explored
NegRetries == 1          \* how far below zero validation.max_retries is explored
MaxItems == 2            \* longest errors / warnings list of a ValidationResult
MaxPaths == 2            \* most paths of a specification document
MaxMethods == 2          \* most keys of one path item
EngineRetries == 1       \* validation.max_retries of the engine's client
MaxLatency == 1          \* longest time the transport itself takes
MaxDelay == 1            \* largest execution.delay_between_requests
MaxResults == 3          \* longest result list a summary is computed over
MaxCodes == 2            \* longest expected_codes list
MaxHeaders == 2          \* most headers of a response, most expected headers

----------------------------------------------------------------------------
(* Values *)

None == [kind |-> "none"]

\* What one call of session.request does: it raises a RequestException or returns
\* a response (status, headers, body).
TransportErrors ==
    { [kind |-> "error", err |-> e] : e \in {"ConnectionError", "Timeout"} }

Response(status, headers, body) ==
    [kind |-> "response", status_code |-> status, headers |-> headers, body |-> body]

Header(name, value) == [name |-> name, value |-> value]

NoBody == [t |-> "unparseable"]

BareResponses ==
    { Response(s, <<>>, NoBody) : s \in {200, 500} }

TransportOutcomes == TransportErrors \cup BareResponses

IsResponse(o) == o.kind = "response"
IsError(o) == o.kind = "error"

RECURSIVE Pow2(_)
Pow2(n) == IF n <= 0 THEN 1 ELSE 2 * Pow2(n - 1)

RECURSIVE SumSeq(_)
SumSeq(s) == IF s = <<>> THEN 0 ELSE Head(s) + SumSeq(Tail(s))

SelectKind(events, k) == SelectSeq(events, LAMBDA e : e.kind = k)

\* The times slept, in order
SleepTimes(events) ==
    [i \in 1..Len(SelectKind(events, "sleep")) |-> SelectKind(events, "sleep")[i].n]

----------------------------------------------------------------------------
(* HTTPClient.request: the retry loop *)

AttemptEvent(attempt, got) == [kind |-> "attempt", n |-> attempt, got |-> got]
SleepEvent(t) == [kind |-> "sleep", n |-> t]

\* A faulty variant: a backoff that grows linearly
wait_time_linear(attempt) == 2 * attempt

\* wait_time = 2 ** attempt
wait_time(attempt) == Pow2(attempt)

\* A faulty variant: a 5xx response treated as a transport failure
session_request_raise_for_status(o) ==
    IF IsResponse(o) /\ o.status_code >= 500
    THEN [kind |-> "error", err |-> "HTTPError"]
    ELSE o

\* The try body: response = self.session.request(**request_args); a response of
\* any status is returned as it is, a RequestException is raised.
session_request(o) == o

\* for attempt in range(self.max_retries + 1): ... ; then the code after the loop.
\* plan[k + 1] is what the transport does on attempt k.
RECURSIVE request_loop(_, _, _, _, _)
request_loop(attempt, maxr, plan, events, last_exception) ==
    IF attempt >= maxr + 1
    THEN \* the range is exhausted
         IF last_exception # None
         THEN [outcome |-> "raise", value |-> last_exception, events |-> events]
         ELSE [outcome |-> "return", value |-> None, events |-> events]
    ELSE LET got == session_request(plan[attempt + 1])
             seen == Append(events, AttemptEvent(attempt, got))
         IN  IF IsResponse(got)
             THEN [outcome |-> "return", value |-> got, events |-> seen]
             ELSE IF attempt = maxr
                  THEN [outcome |-> "raise", value |-> got, events |-> seen]
                  ELSE request_loop(attempt + 1, maxr, plan,
                                    Append(seen, SleepEvent(wait_time(attempt))), got)

request(maxr, plan) == request_loop(0, maxr, plan, <<>>, None)

NoCall == [plan |-> <<>>, outcome |-> "none", value |-> None, events |-> <<>>]

PlanLen == MaxRetriesBound + 1
Plans == [1..PlanLen -> TransportOutcomes]

HttpInit ==
    /\ max_retries \in (0 - NegRetries)..MaxRetriesBound
    /\ httpCall = NoCall

Request ==
    \E plan \in Plans :
        LET r == request(max_retries, plan)
        IN  httpCall' = [plan |-> plan, outcome |-> r.outcome,
                         value |-> r.value, events |-> r.events]

----------------------------------------------------------------------------
(* ValidationResult *)

EmptyDict == <<>>

\* ValidationResult(valid, message): errors and warnings start empty.
VRDetails(valid, message, details) ==
    [valid |-> valid, message |-> message, details |-> details,
     errors |-> <<>>, warnings |-> <<>>]

VRNew(valid, message) == VRDetails(valid, message, EmptyDict)

Entry(message, details) == [message |-> message, details |-> details]

Messages == {"m1", "m2", "m3"}

\* A faulty variant: an error recorded without clearing valid
add_error_keep_valid(r, error, details) ==
    [r EXCEPT !.errors = Append(@, Entry(error, details))]

\* self.errors.append({...}); self.valid = False
add_error(r, error, details) ==
    [r EXCEPT !.errors = Append(@, Entry(error, details)), !.valid = FALSE]

\* A faulty variant: a warning that clears valid
add_warning_invalidates(r, warning, details) ==
    [r EXCEPT !.warnings = Append(@, Entry(warning, details)), !.valid = FALSE]

\* self.warnings.append({...})
add_warning(r, warning, details) ==
    [r EXCEPT !.warnings = Append(@, Entry(warning, details))]

has_errors(r) == Len(r.errors) > 0 \/ ~r.valid

NoVRCall == [op |-> "new", before |-> VRNew(TRUE, "")]

VRInit ==
    /\ \E valid \in BOOLEAN : vr = VRNew(valid, "")
    /\ vrLast = NoVRCall

AddError ==
    \E msg \in Messages :
        /\ Len(vr.errors) < MaxItems
        /\ vr' = add_error(vr, msg, EmptyDict)
        /\ vrLast' = [op |-> "add_error", before |-> vr]

AddWarning ==
    \E msg \in Messages :
        /\ Len(vr.warnings) < MaxItems
        /\ vr' = add_warning(vr, msg, EmptyDict)
        /\ vrLast' = [op |-> "add_warning", before |-> vr]

----------------------------------------------------------------------------
(* Python values: dictionaries, exceptions, strings *)

PyNone == [py |-> "None"]
PyStr(v) == [py |-> "str", v |-> v]
PyBool(v) == [py |-> "bool", v |-> v]
PyInt(v) == [py |-> "int", v |-> v]
IsDict(x) == "py" \notin DOMAIN x
Raise(exception) == [py |-> "raise", exception |-> exception]
IsRaise(x) == "py" \in DOMAIN x /\ x.py = "raise"

\* A local variable: value is computed once and Body reads it under its name
Bind(value, Body(_)) == Body(value)

\* d.get(key, default) on a dictionary held as a record
dict_get(d, key, default) == IF key \in DOMAIN d THEN d[key] ELSE default

\* d.get(key, default) on a dictionary whose order matters, held as a sequence of
\* [key, value] pairs
odict_has(d, key) == \E i \in 1..Len(d) : d[i].key = key
odict_get(d, key, default) ==
    IF odict_has(d, key)
    THEN d[CHOOSE i \in 1..Len(d) : d[i].key = key].value
    ELSE default

Item(key, value) == [key |-> key, value |-> value]

\* bool(x) of a dictionary: the empty dictionary is falsy
Truthy(d) == d # EmptyDict /\ d # PyNone

\* str.lower() and str.upper() on the strings of the model
Lower(s) ==
    CASE s = "GET" -> "get"
      [] s = "POST" -> "post"
      [] s = "DELETE" -> "delete"
      [] s = "Content-Type" -> "content-type"
      [] s = "Application/JSON" -> "application/json"
      [] s = "X-API-Version" -> "x-api-version"
      [] s = "X-Content-Type-Options" -> "x-content-type-options"
      [] s = "X-Frame-Options" -> "x-frame-options"
      [] OTHER -> s

Upper(s) ==
    CASE s = "get" -> "GET"
      [] s = "post" -> "POST"
      [] s = "delete" -> "DELETE"
      [] s = "parameters" -> "PARAMETERS"
      [] OTHER -> s

RECURSIVE ConcatAll(_)
ConcatAll(ss) == IF ss = <<>> THEN <<>> ELSE Head(ss) \o ConcatAll(Tail(ss))

\* The elements of a set in the order an iteration meets them
RECURSIVE SetToSeq(_)
SetToSeq(S) ==
    IF S = {} THEN <<>>
    ELSE LET x == CHOOSE y \in S : TRUE IN <<x>> \o SetToSeq(S \ {x})

----------------------------------------------------------------------------
(* JSON values and schemas *)

JNull == [t |-> "null"]
JStr(v) == [t |-> "string", v |-> v]
JInt(v) == [t |-> "integer", v |-> v]
JObj(fields) == [t |-> "object", v |-> fields]     \* fields: key -> JSON value
JArr(elems) == [t |-> "array", v |-> elems]        \* elems: sequence of JSON values

\* The value of a schema's "type": one name, or a list of names
TypeName(name) == [name |-> name]
TypeList(names) == [list |-> names]
IsTypeList(ty) == "list" \in DOMAIN ty
TypeNames(ty) == IF IsTypeList(ty) THEN ty.list ELSE <<ty.name>>

SeqToSet(q) == { q[i] : i \in 1..Len(q) }

UserSchema ==
    [type |-> TypeName("object"),
     required |-> <<"id", "name">>,
     properties |-> [id |-> [type |-> TypeName("integer")],
                     name |-> [type |-> TypeName("string")]]]

ListSchema == [type |-> TypeName("array"), items |-> UserSchema]

Ann == JObj([id |-> JInt("1"), name |-> JStr("Ann")])
AnnBadId == JObj([id |-> JStr("x"), name |-> JStr("Ann")])
NotFoundBody == JObj([error |-> JStr("not found")])

----------------------------------------------------------------------------
(* OpenAPIParser *)

Verbs == {"get", "post", "put", "delete", "patch", "head", "options"}

\* The attributes __init__ binds on the parser object
Parser(spec) ==
    [spec |-> spec,
     base_url |-> "",
     paths |-> dict_get(spec, "paths", <<>>),
     components |-> dict_get(spec, "components", EmptyDict)]

\* self.<name>: an attribute __init__ never bound raises AttributeError
getattr(object, name) ==
    IF name \in DOMAIN object
    THEN [py |-> "value", value |-> object[name]]
    ELSE Raise("AttributeError")

\* operation.get('operationId', f"{method}_{path}")
operation_id(operation, method, path) ==
    IF "operationId" \in DOMAIN operation
    THEN [given |-> operation.operationId]
    ELSE [method |-> method, path |-> path]

\* The descriptor both get_endpoint and get_all_endpoints build (summary,
\* description, parameters, requestBody, tags and security are copied likewise).
endpoint_info(path, method, operation) ==
    [path |-> path,
     method |-> Upper(method),
     operation_id |-> operation_id(operation, method, path),
     responses |-> dict_get(operation, "responses", EmptyDict)]

get_endpoint(prs, path, method) ==
    Bind(getattr(prs, "path"), LAMBDA self_path :
        IF IsRaise(self_path) THEN self_path
        ELSE Bind(odict_get(odict_get(self_path.value, path, <<>>), Lower(method),
                            EmptyDict),
                  LAMBDA operation :
                     IF ~Truthy(operation) THEN PyNone
                     ELSE endpoint_info(path, method, operation)))

\* A faulty variant: every key of the path item taken for a method
path_endpoints_every_key(path, path_item) ==
    [i \in 1..Len(path_item) |-> endpoint_info(path, path_item[i].key, path_item[i].value)]

\* for method, operation in path_item.items(): the keys that are verbs, in order
path_endpoints(path, path_item) ==
    LET verbs == SelectSeq(path_item, LAMBDA it : Lower(it.key) \in Verbs)
    IN  [i \in 1..Len(verbs) |-> endpoint_info(path, verbs[i].key, verbs[i].value)]

get_all_endpoints(prs) ==
    ConcatAll([i \in 1..Len(prs.paths) |->
                  path_endpoints(prs.paths[i].key, prs.paths[i].value)])

\* A Reference "#/a/b/c" is held as its segments <<"a", "b", "c">>.
RECURSIVE walk(_, _)
walk(node, segments) ==
    IF segments = <<>> THEN node
    ELSE IF Head(segments) \in DOMAIN node
         THEN walk(node[Head(segments)], Tail(segments))
         ELSE Raise("ReferenceError")

resolve_reference(prs, ref) == walk(prs.spec, ref)

\* The operation declared for (path, method), or the empty dictionary
declared_operation(prs, path, method) ==
    odict_get(odict_get(prs.paths, path, <<>>), Lower(method), EmptyDict)

\* The declared response-status keys, each a string
get_expected_status_codes(prs, path, method) ==
    LET keys == SetToSeq(DOMAIN dict_get(declared_operation(prs, path, method),
                                         "responses", EmptyDict))
    IN  [i \in 1..Len(keys) |-> PyStr(keys[i])]

\* responses[statusCode].content["application/json"].schema with a $ref resolved;
\* None when no JSON media type is declared
get_response_schema(prs, path, method, status_code) ==
    LET responses == dict_get(declared_operation(prs, path, method), "responses", EmptyDict)
        response == dict_get(responses, status_code, EmptyDict)
        content == dict_get(response, "content", EmptyDict)
        media == dict_get(content, "application/json", EmptyDict)
    IN  IF "schema" \notin DOMAIN media THEN PyNone
        ELSE IF "$ref" \in DOMAIN media.schema
             THEN resolve_reference(prs, media.schema["$ref"])
             ELSE media.schema

----------------------------------------------------------------------------
(* StatusCodeValidator and HeaderValidator *)

\* str(code): the status codes of the model as strings
Str(code) ==
    CASE code = 200 -> "200"
      [] code = 201 -> "201"
      [] code = 202 -> "202"
      [] code = 404 -> "404"
      [] code = 500 -> "500"
      [] OTHER -> "other"

\* ValidationResult.to_dict()
to_dict(r) ==
    [valid |-> r.valid, message |-> r.message, details |-> r.details,
     errors |-> r.errors, warnings |-> r.warnings]

\* str(code) of an expected code, given as an integer or as a string
code_str(code) == IF code.py = "int" THEN Str(code.v) ELSE code.v

\* response.reason
reason(response) ==
    CASE response.status_code = 200 -> "OK"
      [] response.status_code = 201 -> "Created"
      [] response.status_code = 202 -> "Accepted"
      [] response.status_code = 404 -> "Not Found"
      [] response.status_code = 500 -> "Internal Server Error"
      [] OTHER -> ""

\* self._create_error_result(message, details)
_create_error_result(message, details) == VRDetails(FALSE, message, details)

\* A faulty variant: the codes compared as they are, without str()
StatusCodeValidator_validate_no_str(response, expected_codes) ==
    IF expected_codes = <<>>
    THEN VRNew(TRUE, "No expected status codes specified")
    ELSE IF \E i \in 1..Len(expected_codes) :
                expected_codes[i] = PyInt(response.status_code)
         THEN VRNew(TRUE, "Status code is expected")
         ELSE _create_error_result("Unexpected status code",
                  [actual_code |-> response.status_code,
                   expected_codes |-> expected_codes,
                   reason |-> reason(response)])

\* expected_codes: the list given as expected_codes, of integers and strings
StatusCodeValidator_validate(response, expected_codes) ==
    IF expected_codes = <<>>
    THEN VRNew(TRUE, "No expected status codes specified")
    ELSE IF \E i \in 1..Len(expected_codes) :
                code_str(expected_codes[i]) = Str(response.status_code)
         THEN VRNew(TRUE, "Status code is expected")
         ELSE _create_error_result("Unexpected status code",
                  [actual_code |-> response.status_code,
                   expected_codes |-> expected_codes,
                   reason |-> reason(response)])

\* response.headers.get(name, default): header names compare case-insensitively
headers_get(headers, name, default) ==
    IF \E i \in 1..Len(headers) : Lower(headers[i].name) = Lower(name)
    THEN headers[CHOOSE i \in 1..Len(headers) : Lower(headers[i].name) = Lower(name)].value
    ELSE default

SecurityHeaders ==
    << Item("x-content-type-options", PyStr("nosniff")),
       Item("x-frame-options", PyNone),
       Item("x-xss-protection", PyNone),
       Item("strict-transport-security", PyNone),
       Item("content-security-policy", PyNone) >>

RECURSIVE check_security_headers(_, _, _)
check_security_headers(headers, result, todo) ==
    IF todo = <<>> THEN result
    ELSE LET header == Head(todo).key
             expected_value == Head(todo).value
             present == \E i \in 1..Len(headers) : Lower(headers[i].name) = header
             next ==
                 IF ~present
                 THEN add_warning(result, "Missing security header", [header |-> header])
                 ELSE IF expected_value # PyNone
                         /\ headers_get(headers, header, "") # expected_value.v
                      THEN add_warning(result, "Security header has unexpected value",
                                       [header |-> header])
                      ELSE result
         IN  check_security_headers(headers, next, Tail(todo))

\* A faulty variant: header names compared as they are written
RECURSIVE check_expected_headers_exact_case(_, _, _)
check_expected_headers_exact_case(headers, result, todo) ==
    IF todo = <<>> THEN result
    ELSE LET header_name == Head(todo).key
             expected_value == Head(todo).value
             present == \E i \in 1..Len(headers) : headers[i].name = header_name
             next ==
                 IF ~present
                 THEN add_error(result, "Missing expected header", [header |-> header_name])
                 ELSE IF expected_value # PyNone
                         /\ headers_get(headers, header_name, "") # expected_value.v
                      THEN add_error(result, "Header value mismatch", [header |-> header_name])
                      ELSE result
         IN  check_expected_headers_exact_case(headers, next, Tail(todo))

\* for header_name, expected_value in expected_headers.items()
RECURSIVE check_expected_headers(_, _, _)
check_expected_headers(headers, result, todo) ==
    IF todo = <<>> THEN result
    ELSE LET header_name == Head(todo).key
             expected_value == Head(todo).value
             present == \E i \in 1..Len(headers) : Lower(headers[i].name) = Lower(header_name)
             next ==
                 IF ~present
                 THEN add_error(result, "Missing expected header", [header |-> header_name])
                 ELSE IF expected_value # PyNone
                         /\ headers_get(headers, header_name, "") # expected_value.v
                      THEN add_error(result, "Header value mismatch", [header |-> header_name])
                      ELSE result
         IN  check_expected_headers(headers, next, Tail(todo))

\* expected_headers: sequence of [key, value] pairs, a value being PyStr(v) or PyNone
HeaderValidator_validate(response, expected_headers) ==
    IF expected_headers = <<>>
    THEN VRDetails(TRUE, "No expected headers specified", EmptyDict)
    ELSE Bind(check_security_headers(response.headers,
                 check_expected_headers(response.headers, VRDetails(TRUE, "", EmptyDict),
                                        expected_headers),
                 SecurityHeaders),
              LAMBDA result :
                 IF result.valid
                 THEN [result EXCEPT !.message = "Headers validation passed"]
                 ELSE result)

----------------------------------------------------------------------------
(* SchemaValidator *)

\* 'application/json' in content_type, content_type.endswith('/json'), on the
\* lower-cased content types of the model
contains_application_json(content_type) ==
    content_type \in {"application/json", "application/json; charset=utf-8"}
endswith_slash_json(content_type) ==
    content_type \in {"application/json", "text/json"}

\* The content types of the model: the two above decide every one of them, the
\* others being text/plain, application/vnd.api+json and the empty default
ContentTypes ==
    {"application/json", "Application/JSON", "application/json; charset=utf-8",
     "text/json", "text/plain", "application/vnd.api+json"}

_is_json_response(response) ==
    LET content_type == Lower(headers_get(response.headers, "content-type", ""))
    IN  contains_application_json(content_type) \/ endswith_slash_json(content_type)

\* A faulty variant: nullable: true alone, whether or not the node has a type
nullable_typed_without_type(node) ==
    dict_get(node, "nullable", PyNone) = PyBool(TRUE)

\* node.get('nullable') is True and 'type' in node
nullable_typed(node) ==
    dict_get(node, "nullable", PyNone) = PyBool(TRUE) /\ "type" \in DOMAIN node

\* The type a nullable node is given: null joins a list that lacks it, a single
\* type becomes the pair of it and null
with_null(original_type) ==
    IF IsTypeList(original_type)
    THEN IF "null" \notin SeqToSet(original_type.list)
         THEN TypeList(Append(original_type.list, "null"))
         ELSE original_type
    ELSE TypeList(<<original_type.name, "null">>)

\* The nested process_node: each key of the processed node, nullable popped
RECURSIVE process_node(_)
process_node(node) ==
    IF ~IsDict(node) THEN node
    ELSE [k \in DOMAIN node \ (IF nullable_typed(node) THEN {"nullable"} ELSE {}) |->
            CASE k = "type" /\ nullable_typed(node) -> with_null(node[k])
              [] k = "properties" ->
                    [p \in DOMAIN node[k] |-> process_node(node[k][p])]
              [] k = "items" -> process_node(node[k])
              [] k = "additionalProperties" /\ IsDict(node[k]) -> process_node(node[k])
              [] OTHER -> node[k]]

\* A faulty variant: process_node applied to the caller's schema object itself
_process_nullable_fields_in_place(schema) ==
    [returned |-> process_node(schema), schema |-> process_node(schema)]

\* processed = copy.deepcopy(schema); return process_node(processed): process_node
\* writes to the copy, so the caller's schema object keeps its value
_process_nullable_fields_call(schema) ==
    [returned |-> process_node(schema), schema |-> schema]

_process_nullable_fields(schema) == _process_nullable_fields_call(schema).returned

\* Draft 7 "type": an integer is also a number
type_matches(instance, name) ==
    instance.t = name \/ (name = "number" /\ instance.t = "integer")

SchemaError(validator, instance, path, schema_path) ==
    [validator |-> validator, instance |-> instance,
     absolute_path |-> path, schema_path |-> schema_path]

\* str(i) of an array index
IndexStr(i) == CASE i = 1 -> "0" [] i = 2 -> "1" [] OTHER -> "n"

\* The sequence of F(k) for the keys k of S
SeqOver(S, F(_)) == [i \in 1..Cardinality(S) |-> F(SetToSeq(S)[i])]

\* The type names of Draft 7
KnownTypes == {"null", "boolean", "object", "array", "number", "string", "integer"}

\* An exception raised while the errors are iterated: the iteration ends there
Raising(exception, instance, path, schema_path) ==
    [validator |-> "raise", exception |-> exception, instance |-> instance,
     absolute_path |-> path, schema_path |-> schema_path]

\* Draft7Validator(schema, resolver).iter_errors(instance) for the keywords $ref,
\* type, required, properties and items; root is the document references are
\* resolved against. An unknown type name raises UnknownType, a reference that
\* does not resolve raises RefResolutionError.
RECURSIVE iter_errors(_, _, _, _, _)
iter_errors(instance, schema, path, schema_path, root) ==
    IF "$ref" \in DOMAIN schema
    THEN Bind(walk(root, schema["$ref"]), LAMBDA target :
            IF IsRaise(target)
            THEN << Raising("RefResolutionError", instance, path, schema_path) >>
            ELSE iter_errors(instance, target, path, Append(schema_path, "$ref"), root))
    ELSE
    (IF "type" \in DOMAIN schema
     THEN IF \E name \in SeqToSet(TypeNames(schema.type)) : name \notin KnownTypes
          THEN << Raising("UnknownType", instance, path, schema_path) >>
          ELSE IF ~\E name \in SeqToSet(TypeNames(schema.type)) : type_matches(instance, name)
          THEN << SchemaError("type", instance, path, Append(schema_path, "type")) >>
          ELSE <<>>
     ELSE <<>>)
    \o (IF "required" \in DOMAIN schema /\ instance.t = "object"
        THEN SeqOver({i \in 1..Len(schema.required) :
                         schema.required[i] \notin DOMAIN instance.v},
                     LAMBDA i : SchemaError("required", instance, path,
                                            Append(schema_path, "required")))
        ELSE <<>>)
    \o (IF "properties" \in DOMAIN schema /\ instance.t = "object"
        THEN ConcatAll(SeqOver(DOMAIN schema.properties \cap DOMAIN instance.v,
                 LAMBDA k : iter_errors(instance.v[k], schema.properties[k],
                                        Append(path, k),
                                        schema_path \o <<"properties", k>>, root)))
        ELSE <<>>)
    \o (IF "items" \in DOMAIN schema /\ instance.t = "array"
        THEN ConcatAll([i \in 1..Len(instance.v) |->
                 iter_errors(instance.v[i], schema.items,
                             Append(path, IndexStr(i)), Append(schema_path, "items"),
                             root)])
        ELSE <<>>)

\* 'readOnly' in str(error.schema_path): some segment of the schema path
\* contains the text readOnly
mentions_readOnly(schema_path) ==
    \E i \in 1..Len(schema_path) : schema_path[i] \in {"readOnly"}

NullAllowList == {"next", "previous", "url", "description", "results"}

\* A faulty variant: the allow-list applied whatever the value is
_is_acceptable_null_error_any_value(error) ==
    LET path == error.absolute_path
    IN  IF path = <<>> THEN FALSE
        ELSE IF error.validator = "type" /\ mentions_readOnly(error.schema_path)
             THEN TRUE
             ELSE path[Len(path)] \in NullAllowList

_is_acceptable_null_error(error) ==
    IF error.instance = JNull
    THEN LET path == error.absolute_path
         IN  IF path = <<>> THEN FALSE
             ELSE IF error.validator = "type" /\ mentions_readOnly(error.schema_path)
                  THEN TRUE
                  ELSE path[Len(path)] \in NullAllowList
    ELSE FALSE

\* The errors iterated before an exception is raised, or all of them
Before(found) ==
    SubSeq(found, 1, (CHOOSE n \in 0..Len(found) :
                         /\ \A i \in 1..n : found[i].validator # "raise"
                         /\ n < Len(found) => found[n + 1].validator = "raise"))

\* errors.append({'message': error.message, 'details': error_details}) for each
\* error that is not skipped
error_entries(found) ==
    Bind(SelectSeq(found, LAMBDA error : ~_is_acceptable_null_error(error)),
         LAMBDA kept :
            [i \in 1..Len(kept) |->
                [message |-> kept[i].validator,
                 details |-> [path |-> kept[i].absolute_path,
                              schema_path |-> kept[i].schema_path,
                              validator |-> kept[i].validator]]])

\* except jsonschema.SchemaError / except Exception: one entry for the exception
exception_entry(exception) ==
    IF exception = "SchemaError"
    THEN [message |-> "Invalid schema", details |-> [schema_error |-> exception]]
    ELSE [message |-> "Validation error", details |-> [error_type |-> exception]]

\* A faulty variant: the exception ends the iteration and is not reported
_validate_against_schema_silent(data, schema, full_spec) ==
    Bind(iter_errors(data, _process_nullable_fields(schema), <<>>, <<>>,
                     IF Truthy(full_spec) THEN full_spec
                     ELSE _process_nullable_fields(schema)),
         LAMBDA found : error_entries(Before(found)))

\* resolver = RefResolver.from_schema(full_spec) if full_spec, else the validator
\* resolves references against the schema itself
_validate_against_schema(data, schema, full_spec) ==
    Bind(iter_errors(data, _process_nullable_fields(schema), <<>>, <<>>,
                     IF Truthy(full_spec) THEN full_spec
                     ELSE _process_nullable_fields(schema)),
         LAMBDA found :
            error_entries(Before(found))
            \o (IF Len(Before(found)) < Len(found)
                THEN << exception_entry(found[Len(Before(found)) + 1].exception) >>
                ELSE <<>>))

RECURSIVE add_errors(_, _)
add_errors(result, errors) ==
    IF errors = <<>> THEN result
    ELSE add_errors(add_error(result, Head(errors).message, Head(errors).details),
                    Tail(errors))

\* The dotted path of a key below path ("" at the root)
Dotted(path, key) == Append(path, key)

RECURSIVE check_empty_keys(_, _, _, _)
check_empty_keys(data, result, path, keys) ==
    IF keys = <<>> THEN result
    ELSE LET key == Head(keys)
             value == data.v[key]
             current_path == Dotted(path, key)
             next ==
                 IF value = JNull
                 THEN add_warning(result, "Null value found", [at |-> current_path])
                 ELSE IF value = JStr("")
                 THEN add_warning(result, "Empty string found", [at |-> current_path])
                 ELSE IF value.t = "object" /\ DOMAIN value.v = {}
                 THEN add_warning(result, "Empty object found", [at |-> current_path])
                 ELSE IF value.t = "array" /\ Len(value.v) = 0
                 THEN add_warning(result, "Empty array found", [at |-> current_path])
                 ELSE IF value.t = "object"
                 THEN check_empty_keys(value, result, current_path,
                                       SetToSeq(DOMAIN value.v))
                 ELSE result
         IN  check_empty_keys(data, next, path, Tail(keys))

_check_empty_fields(data, result, path) ==
    check_empty_keys(data, result, path, SetToSeq(DOMAIN data.v))

_validate_response_structure(data, result) ==
    IF data.t # "object" THEN result
    ELSE Bind(IF "error" \in DOMAIN data.v /\ data.v["error"].t = "string"
              THEN add_warning(result, "Response contains error field",
                               [error_message |-> data.v["error"].v])
              ELSE result,
              LAMBDA r1 :
                 _check_empty_fields(data,
                     IF /\ "data" \in DOMAIN data.v /\ data.v["data"].t = "array"
                        /\ \E k \in {"page", "limit", "total"} : k \in DOMAIN data.v
                     THEN [r1 EXCEPT !.details = [pagination_detected |-> TRUE]]
                     ELSE r1,
                     <<>>))

SchemaValidator_validate(response, expected_schema, spec) ==
    LET result == VRNew(TRUE, "")
    IN  IF ~_is_json_response(response)
        THEN add_error(result, "Response is not JSON",
                       [content_type |-> headers_get(response.headers, "content-type", "unknown"),
                        status_code |-> response.status_code])
        ELSE IF response.body = NoBody
        THEN add_error(result, "Invalid JSON in response", EmptyDict)
        ELSE Bind(_validate_response_structure(response.body,
                     IF Truthy(expected_schema)
                     THEN add_errors(result,
                              _validate_against_schema(response.body, expected_schema, spec))
                     ELSE result),
                  LAMBDA structured :
                     IF structured.valid
                     THEN [structured EXCEPT !.message = "Response validates against schema"]
                     ELSE structured)

----------------------------------------------------------------------------
(* ValidationEngine *)

\* final_path.replace('{name}', str(value)) on the path templates of the model
str_replace(path, name, value) ==
    IF path = "/orders/{id}" /\ name = "id" /\ value = "42" THEN "/orders/42" ELSE path

RECURSIVE replace_all(_, _)
replace_all(path, path_params) ==
    IF path_params = <<>> THEN path
    ELSE replace_all(str_replace(path, Head(path_params).key, Head(path_params).value),
                     Tail(path_params))

_replace_path_parameters(path, test_data) ==
    IF ~Truthy(test_data) \/ "path_params" \notin DOMAIN test_data
    THEN path
    ELSE replace_all(path, test_data.path_params)

\* The arguments of self.client.request and what comes back for them: env.plan is
\* what the transport does on each attempt.
_make_request(maxr, path, method, test_data, env) ==
    LET params == IF Truthy(test_data) THEN dict_get(test_data, "params", EmptyDict) ELSE EmptyDict
        json_data == IF Truthy(test_data) THEN dict_get(test_data, "json", PyNone) ELSE PyNone
        headers == IF Truthy(test_data) THEN dict_get(test_data, "headers", EmptyDict) ELSE EmptyDict
        final_path == _replace_path_parameters(path, test_data)
        sent == request(maxr, env.plan)
    IN  [request |-> [method |-> method, endpoint |-> final_path, params |-> params,
                      json |-> json_data, headers |-> headers],
         outcome |-> sent.outcome, value |-> sent.value, events |-> sent.events]

_validate_response(prs, response, info) ==
    LET expected_codes == get_expected_status_codes(prs, info.path, info.method)
        status_result == StatusCodeValidator_validate(response, expected_codes)
        header_result == HeaderValidator_validate(response, <<>>)
    IN  Bind(IF 200 <= response.status_code /\ response.status_code < 300
             THEN get_response_schema(prs, info.path, info.method,
                                      Str(response.status_code))
             ELSE PyNone,
             LAMBDA response_schema :
                IF IsRaise(response_schema) THEN response_schema
                ELSE [status_code |-> to_dict(status_result)]
                     @@ (IF Truthy(response_schema)
                         THEN [schema |-> to_dict(SchemaValidator_validate(
                                              response, response_schema, prs.spec))]
                         ELSE EmptyDict)
                     @@ [headers |-> to_dict(header_result)])

_get_request_details(sent) == [method |-> sent.method, url |-> sent.endpoint]

_get_response_details(response) ==
    [status_code |-> response.status_code, headers |-> response.headers]

\* time.time() - start_time: the time slept between attempts plus the transport's own
Elapsed(events, env) == SumSeq(SleepTimes(events)) + env.latency

Returned(value, events) == [outcome |-> "return", value |-> value, events |-> events]
Raised(exception, events) == [outcome |-> "raise", value |-> exception, events |-> events]

all_valid(validation_results) ==
    \A k \in DOMAIN validation_results : validation_results[k].valid

not_found_result(path, method) ==
    [path |-> path, method |-> method, success |-> FALSE,
     error |-> [text |-> "Endpoint not found in specification",
                method |-> method, path |-> path],
     duration |-> 0]

response_result(path, method, response, validation_results, duration, sent, info) ==
    [path |-> path, method |-> method,
     success |-> all_valid(validation_results),
     status_code |-> response.status_code,
     response_time |-> duration,
     validations |-> validation_results,
     request_details |-> _get_request_details(sent),
     response_details |-> _get_response_details(response),
     endpoint_info |-> [operation_id |-> info.operation_id]]

transport_failure_result(path, method, e, duration) ==
    [path |-> path, method |-> method, success |-> FALSE,
     error |-> [text |-> "Request failed", cause |-> e.err],
     duration |-> duration,
     validations |-> EmptyDict,
     request_details |-> EmptyDict,
     response_details |-> EmptyDict]

\* The body of validate_endpoint from the request on, for an endpoint the lookup found
request_and_validate(prs, maxr, path, method, test_data, env, info) ==
    Bind(_make_request(maxr, path, method, test_data, env), LAMBDA sent :
        LET events == [i \in 1..Len(sent.events) |->
                          [kind |-> sent.events[i].kind, request |-> sent.request]]
            duration == Elapsed(sent.events, env)
        IN  IF sent.outcome = "raise"
            THEN \* except requests.RequestException
                 Returned(transport_failure_result(path, method, sent.value, duration),
                          events)
            ELSE IF sent.value = None
            THEN \* response.status_code on None
                 Raised("AttributeError", events)
            ELSE Bind(_validate_response(prs, sent.value, info),
                      LAMBDA validation_results :
                         IF IsRaise(validation_results)
                         THEN Raised(validation_results.exception, events)
                         ELSE Returned(response_result(path, method, sent.value,
                                                       validation_results, duration,
                                                       sent.request, info),
                                       events)))

validate_endpoint(prs, maxr, path, method, test_data, env) ==
    Bind(get_endpoint(prs, path, method), LAMBDA info :
        IF IsRaise(info) THEN Raised(info.exception, <<>>)
        ELSE IF ~Truthy(info) THEN Returned(not_found_result(path, method), <<>>)
        ELSE request_and_validate(prs, maxr, path, method, test_data, env, info))

\* test_data.get(path, {}).get(method.lower()) if test_data else None
endpoint_test_data(test_data, endpoint) ==
    IF Truthy(test_data)
    THEN dict_get(dict_get(test_data, endpoint.path, EmptyDict), Lower(endpoint.method), PyNone)
    ELSE PyNone

ResultEvent(i) == [kind |-> "result", endpoint |-> i]
DelayEvent(t) == [kind |-> "delay", n |-> t]

Tagged(events, i) ==
    [j \in 1..Len(events) |-> [kind |-> events[j].kind, endpoint |-> i,
                               request |-> events[j].request]]

\* The for loop of validate_all_endpoints from the i-th endpoint on; envs[i] is the
\* transport's behaviour for the i-th endpoint.
RECURSIVE run_endpoints(_, _, _, _, _, _, _, _)
run_endpoints(prs, maxr, settings, endpoints, test_data, envs, i, acc) ==
    IF i > Len(endpoints)
    THEN [outcome |-> "return", results |-> acc.results, events |-> acc.events]
    ELSE Bind(validate_endpoint(prs, maxr, endpoints[i].path, endpoints[i].method,
                                endpoint_test_data(test_data, endpoints[i]), envs[i]),
              LAMBDA call :
                 IF call.outcome = "raise"
                 THEN [outcome |-> "raise", value |-> call.value,
                       results |-> acc.results,
                       events |-> acc.events \o Tagged(call.events, i)]
                 ELSE Bind([results |-> Append(acc.results, call.value),
                            events |-> acc.events \o Tagged(call.events, i)
                                      \o <<ResultEvent(i)>>
                                      \o (IF settings.delay_between_requests > 0
                                          THEN <<DelayEvent(settings.delay_between_requests)>>
                                          ELSE <<>>)],
                           LAMBDA next :
                              IF ~call.value.success /\ settings.stop_on_first_failure
                              THEN [outcome |-> "return", results |-> next.results,
                                    events |-> next.events]
                              ELSE run_endpoints(prs, maxr, settings, endpoints, test_data,
                                                 envs, i + 1, next)))

validate_all_endpoints(prs, maxr, settings, test_data, envs) ==
    run_endpoints(prs, maxr, settings, get_all_endpoints(prs), test_data, envs, 1,
                  [results |-> <<>>, events |-> <<>>])

Rational(num, den) == [num |-> num, den |-> den]

CountPassed(rs) == Len(SelectSeq(rs, LAMBDA r : r.success))
SumResponseTimes(rs) ==
    SumSeq([i \in 1..Len(rs) |-> dict_get(rs[i], "response_time", 0)])

\* A faulty variant: failed counted as the results that carry an error
get_summary_counts_errors(rs) ==
    IF rs = <<>>
    THEN [total |-> 0, passed |-> 0, failed |-> 0, success_rate |-> Rational(0, 1)]
    ELSE [total |-> Len(rs),
          passed |-> CountPassed(rs),
          failed |-> Len(SelectSeq(rs, LAMBDA r : "error" \in DOMAIN r)),
          success_rate |-> Rational(CountPassed(rs) * 100, Len(rs)),
          average_response_time |-> Rational(SumResponseTimes(rs), Len(rs))]

\* get_summary over self.results; a quotient is held as numerator and denominator
get_summary(rs) ==
    IF rs = <<>>
    THEN [total |-> 0, passed |-> 0, failed |-> 0, success_rate |-> Rational(0, 1)]
    ELSE LET total == Len(rs)
             passed == CountPassed(rs)
             failed == total - passed
         IN  [total |-> total,
              passed |-> passed,
              failed |-> failed,
              success_rate |-> Rational(passed * 100, total),
              average_response_time |-> Rational(SumResponseTimes(rs), total)]

----------------------------------------------------------------------------
(* main.py: the validate command *)

\* endpoint.strip().split(' ', 1) on the --endpoint values of the model
split_endpoint(endpoint) ==
    CASE endpoint = "GET /users" -> <<"GET", "/users">>
      [] endpoint = "post /users" -> <<"post", "/users">>
      [] endpoint = "GET /missing" -> <<"GET", "/missing">>
      [] endpoint = " GET /orders/{id} " -> <<"GET", "/orders/{id}">>
      [] OTHER -> <<endpoint>>

\* How the command ends: the exit status, the results it displayed and the
\* exception that ended it, if one did
CommandExit(status, shown, exception) ==
    [status |-> status, results |-> shown, exception |-> exception]

\* A faulty variant: the exception is reported and the command ends normally
fatal_exit_status_zero(exception) == CommandExit(0, <<>>, exception)

\* except Exception as e: ...; sys.exit(1)
fatal_exit(exception) == CommandExit(1, <<>>, exception)

\* summary = engine.get_summary() ... if summary['failed'] > 0: sys.exit(1)
\* (the output format is console; self_results is engine.results at that point)
summarise_and_exit(shown, self_results) ==
    CommandExit(IF get_summary(self_results).failed > 0 THEN 1 ELSE 0, shown, "none")

\* validate(spec_file, ..., endpoint, ...) on a new engine; loads tells whether
\* OpenAPIParser.load_spec reads the file or raises ValueError; env and envs are
\* the transport's behaviour. The value holds the engine's results as well.
validate_command(loads, prs, maxr, settings, endpoint, test_data_dict, env, envs) ==
    IF ~loads THEN [exit |-> fatal_exit("ValueError"), self_results |-> <<>>]
    ELSE IF endpoint # PyNone
    THEN Bind(split_endpoint(endpoint.v), LAMBDA parts :
            IF Len(parts) # 2
            THEN [exit |-> CommandExit(1, <<>>, "none"), self_results |-> <<>>]
            ELSE Bind(validate_endpoint(prs, maxr, parts[2], parts[1],
                         IF Truthy(test_data_dict)
                         THEN dict_get(dict_get(test_data_dict, parts[2], EmptyDict),
                                       Lower(parts[1]), PyNone)
                         ELSE PyNone,
                         env),
                      LAMBDA call :
                         IF call.outcome = "raise"
                         THEN [exit |-> fatal_exit(call.value), self_results |-> <<>>]
                         ELSE [exit |-> summarise_and_exit(<<call.value>>, <<>>),
                               self_results |-> <<>>]))
    ELSE Bind(validate_all_endpoints(prs, maxr, settings, test_data_dict, envs),
              LAMBDA call :
                 IF call.outcome = "raise"
                 THEN [exit |-> fatal_exit(call.value), self_results |-> <<>>]
                 ELSE [exit |-> summarise_and_exit(call.results, call.results),
                       self_results |-> call.results])

----------------------------------------------------------------------------
(* Specification documents, test data and transports of the model *)

JsonContent(schema) ==
    [description |-> "ok", content |-> ("application/json" :> [schema |-> schema])]

UserRef == ("$ref" :> <<"components", "schemas", "User">>)

OpGet ==
    [operationId |-> "getUsers",
     responses |-> ("200" :> JsonContent(UserRef))
                   @@ ("201" :> JsonContent(ListSchema))
                   @@ ("404" :> [description |-> "not found"])]

OpPost == [responses |-> ("201" :> JsonContent(UserSchema))]

\* The keys a path item may hold: two operations, a shared parameters list and
\* an operation with an empty body
ItemPool ==
    { Item("get", OpGet), Item("POST", OpPost),
      Item("parameters", <<>>), Item("delete", EmptyDict) }

PathNames == {"/users", "/orders/{id}"}

DistinctKeys(q) == \A i, j \in 1..Len(q) : i # j => q[i].key # q[j].key

PathItems ==
    { q \in UNION { [1..n -> ItemPool] : n \in 0..MaxMethods } : DistinctKeys(q) }

PathsDicts ==
    { q \in UNION { [1..n -> { Item(p, it) : p \in PathNames, it \in PathItems }]
                    : n \in 0..MaxPaths } : DistinctKeys(q) }

Specification(paths) ==
    [openapi |-> "3.0.3",
     paths |-> paths,
     components |-> [schemas |-> [User |-> UserSchema]]]

TestCase42 == [path_params |-> <<Item("id", "42")>>]
TestData42 == ("/orders/{id}" :> [get |-> TestCase42])

JsonHeaders == <<Header("Content-Type", "application/json")>>
TextHeaders == <<Header("content-type", "text/plain")>>

Timeout == [kind |-> "error", err |-> "Timeout"]
ConnectionError == [kind |-> "error", err |-> "ConnectionError"]

ROk == Response(200, JsonHeaders, Ann)
RBadId == Response(200, JsonHeaders, AnnBadId)
RText == Response(200, TextHeaders, NoBody)
RCreated == Response(201, JsonHeaders, JArr(<<Ann>>))
RNotFound == Response(404, JsonHeaders, NotFoundBody)
\* Responses with a status in [200, 300) that no operation of the model declares
RAccepted == Response(202, JsonHeaders, JObj([error |-> JStr("queued")]))
RAcceptedText == Response(202, TextHeaders, NoBody)
RServerError == Response(500, TextHeaders, NoBody)

PlanOf(first, rest) == [k \in 1..PlanLen |-> IF k = 1 THEN first ELSE rest]

Latencies == 1..MaxLatency

Behaviour(first, rest, latency) == [plan |-> PlanOf(first, rest), latency |-> latency]

RunBehaviours ==
    { Behaviour(a, a, l) : a \in {Timeout, ROk, RBadId}, l \in Latencies }

EndpointBehaviours ==
    RunBehaviours
    \cup { Behaviour(Timeout, ROk, l) : l \in Latencies }
    \cup { Behaviour(a, a, l) : a \in {RText, RCreated, RNotFound, RServerError,
                                      RAccepted, RAcceptedText},
                                l \in Latencies }

ArgPaths == PathNames \cup {"/missing"}
ArgMethods == {"GET", "POST"}

\* What one validate_endpoint call is given: test data and the transport's behaviour
EndpointCases ==
    { [test_data |-> PyNone, env |-> b] : b \in EndpointBehaviours }
    \cup { [test_data |-> TestCase42, env |-> Behaviour(ROk, ROk, 1)] }

----------------------------------------------------------------------------
(* ValidationEngine: state and operations *)

NoEngCall == [op |-> "none"]

\* ValidationEngine.__init__
EngineInit ==
    /\ \E paths \in PathsDicts : parser = Parser(Specification(paths))
    /\ \E stop \in BOOLEAN, delay \in 0..MaxDelay :
          config = [stop_on_first_failure |-> stop, delay_between_requests |-> delay]
    /\ max_retries = EngineRetries
    /\ results = <<>>
    /\ engCall = NoEngCall

\* The caller reads the summary after each validation call (main.py), and
\* get_summary changes nothing: a validation call is taken from a fresh engine or
\* after a summary.
Idle == engCall.op \in {"none", "get_summary"}

ValidateEndpoint ==
    \E path \in ArgPaths, method \in ArgMethods, case \in EndpointCases :
        LET call == validate_endpoint(parser, max_retries, path, method,
                                      case.test_data, case.env)
        IN  /\ Idle
            /\ engCall' = [op |-> "validate_endpoint", path |-> path, method |-> method,
                           test_data |-> case.test_data, env |-> case.env,
                           outcome |-> call.outcome, value |-> call.value,
                           events |-> call.events]
            /\ UNCHANGED results

ValidateAllEndpoints ==
    \E test_data \in {EmptyDict, TestData42} :
    \E envs \in [1..Len(get_all_endpoints(parser)) -> RunBehaviours] :
        LET call == validate_all_endpoints(parser, max_retries, config, test_data, envs)
        IN  /\ Idle
            /\ engCall' = [op |-> "validate_all_endpoints", test_data |-> test_data,
                           envs |-> envs, outcome |-> call.outcome,
                           value |-> IF call.outcome = "return"
                                     THEN call.results ELSE call.value,
                           events |-> call.events]
            /\ results' = IF call.outcome = "return" THEN call.results ELSE results

GetSummary ==
    /\ engCall' = [op |-> "get_summary", outcome |-> "return",
                   value |-> get_summary(results)]
    /\ UNCHANGED results

\* parser.get_all_endpoints()
GetAllEndpoints ==
    engCall' = [op |-> "get_all_endpoints", outcome |-> "return",
                value |-> get_all_endpoints(parser)]

EndpointOptions ==
    {PyNone} \cup { PyStr(e) : e \in {"GET /users", "post /users", "GET /missing",
                                      " GET /orders/{id} ", "GET"} }

\* python main.py validate spec_file [--endpoint "METHOD /path"] -f console
ValidateCommand ==
    \E loads \in BOOLEAN, endpoint \in EndpointOptions, test_data \in {EmptyDict, TestData42} :
    \E env \in RunBehaviours :
    \E envs \in [1..Len(get_all_endpoints(parser)) -> RunBehaviours] :
        LET run == validate_command(loads, parser, max_retries, config, endpoint,
                                    test_data, env, envs)
        IN  /\ engCall = NoEngCall
            /\ engCall' = [op |-> "validate", loads |-> loads, endpoint |-> endpoint,
                           outcome |-> "exit", value |-> run.exit]
            /\ results' = run.self_results

----------------------------------------------------------------------------
(* Validators: the calls of the model *)

\* response.headers of a response with one content type, or with none
ContentTypeHeaders ==
    {<<>>, <<Header("content-type", "application/json")>>}
    \cup { <<Header("Content-Type", ct)>> : ct \in ContentTypes }

PageSchema ==
    [type |-> TypeName("object"),
     required |-> <<"results">>,
     properties |-> [next |-> [type |-> TypeName("string")],
                     results |-> ListSchema]]

\* A schema with a property named readOnly
ReadOnlyNameSchema ==
    [type |-> TypeName("object"),
     properties |-> [readOnly |-> [type |-> TypeName("string")],
                     name |-> [type |-> TypeName("string")]]]

NullableUserSchema ==
    [type |-> TypeName("object"),
     required |-> <<"id", "name">>,
     properties |-> [id |-> [type |-> TypeName("integer"), nullable |-> PyBool(TRUE)],
                     name |-> [type |-> TypeName("string")]]]

\* A schema whose id is marked readOnly: true
ReadOnlyFlagSchema ==
    [type |-> TypeName("object"),
     properties |-> [id |-> [type |-> TypeName("integer"), readOnly |-> PyBool(TRUE)],
                     name |-> [type |-> TypeName("string")]]]

ExpectedSchemas ==
    {PyNone, EmptyDict, UserSchema, ListSchema, PageSchema, ReadOnlyNameSchema,
     NullableUserSchema, ReadOnlyFlagSchema}

\* What response.json() gives, or raises
Bodies ==
    { NoBody, JNull, Ann, AnnBadId,
      JObj([id |-> JNull, name |-> JStr("Ann")]),
      JObj([name |-> JNull]),
      JObj([results |-> JArr(<<Ann>>), next |-> JNull]),
      JObj([results |-> JArr(<<>>), next |-> JInt("5")]),
      JObj([items |-> JArr(<<JNull, JObj([name |-> JStr("")])>>)]),
      JObj([readOnly |-> JNull, name |-> JStr("")]),
      JObj([error |-> JStr("boom"), data |-> JArr(<<>>), total |-> JInt("0"),
            meta |-> JObj(EmptyDict)]),
      JArr(<<Ann, AnnBadId>>) }

SchemaResponses ==
    { Response(200, h, b) : h \in ContentTypeHeaders, b \in Bodies }

\* SchemaValidator().validate(response, expected_schema)
SchemaValidate ==
    \E response \in SchemaResponses, expected_schema \in ExpectedSchemas :
        /\ vr' = SchemaValidator_validate(response, expected_schema, EmptyDict)
        /\ vrLast' = [op |-> "SchemaValidator.validate", response |-> response,
                      expected_schema |-> expected_schema]

\* Schemas whose check can raise: an unknown type name at the root or under a
\* property, a reference to a component the specification lacks, and a reference
\* that resolves only against the full specification
MissingRef == ("$ref" :> <<"components", "schemas", "Missing">>)

FailingSchemas ==
    { [type |-> TypeName("strin")],
      [type |-> TypeName("object"),
       required |-> <<"email">>,
       properties |-> [name |-> [type |-> TypeName("text")]]],
      MissingRef,
      [type |-> TypeName("object"), properties |-> [name |-> MissingRef]],
      [type |-> TypeName("array"), items |-> UserRef],
      UserRef }

\* SchemaValidator().validate(response, expected_schema, spec=spec), as the engine
\* calls it
SchemaValidateWithSpec ==
    \E response \in SchemaResponses, expected_schema \in FailingSchemas \cup {UserSchema} :
    \E spec \in {EmptyDict, Specification(<<>>)} :
        /\ vr' = SchemaValidator_validate(response, expected_schema, spec)
        /\ vrLast' = [op |-> "SchemaValidator.validate(spec)", response |-> response,
                      expected_schema |-> expected_schema, spec |-> spec]

ExpectedCodes == {PyInt(200), PyInt(201), PyStr("200"), PyStr("404"), PyStr("default")}

ExpectedCodeLists == UNION { [1..n -> ExpectedCodes] : n \in 0..MaxCodes }

\* StatusCodeValidator().validate(response, {}, expected_codes=expected_codes)
StatusValidate ==
    \E status \in {200, 201, 404, 500}, expected_codes \in ExpectedCodeLists :
        /\ vr' = StatusCodeValidator_validate(Response(status, <<>>, NoBody), expected_codes)
        /\ vrLast' = [op |-> "StatusCodeValidator.validate",
                      response |-> Response(status, <<>>, NoBody),
                      expected_codes |-> expected_codes]

HeaderPool ==
    { Header("Content-Type", "application/json"),
      Header("X-API-Version", "1.0"), Header("x-api-version", "2.0"),
      Header("X-Content-Type-Options", "nosniff"),
      Header("x-content-type-options", "sniff"),
      Header("X-Frame-Options", "DENY") }

\* response.headers: no two names alike but for case
HeaderLists ==
    { h \in UNION { [1..n -> HeaderPool] : n \in 0..MaxHeaders } :
        \A i, j \in 1..Len(h) : i # j => Lower(h[i].name) # Lower(h[j].name) }

ExpectedHeaderPool ==
    { Item("Content-Type", PyStr("application/json")),
      Item("X-API-Version", PyStr("1.0")),
      Item("x-api-version", PyNone),
      Item("X-Frame-Options", PyNone) }

ExpectedHeaderLists ==
    { e \in UNION { [1..n -> ExpectedHeaderPool] : n \in 0..MaxHeaders } : DistinctKeys(e) }

\* HeaderValidator().validate(response, {}, expected_headers=expected_headers)
HeaderValidate ==
    \E headers \in HeaderLists, expected_headers \in ExpectedHeaderLists :
        /\ vr' = HeaderValidator_validate(Response(200, headers, NoBody), expected_headers)
        /\ vrLast' = [op |-> "HeaderValidator.validate",
                      response |-> Response(200, headers, NoBody),
                      expected_headers |-> expected_headers]

\* Schema nodes without children: a type or none, nullable true, false or absent
LeafTypes ==
    { EmptyDict, [type |-> TypeName("string")], [type |-> TypeName("integer")],
      [type |-> TypeList(<<"string", "null">>)],
      [type |-> TypeList(<<"string", "integer">>)] }

LeafNodes ==
    { t @@ n : t \in LeafTypes,
               n \in {EmptyDict, [nullable |-> PyBool(TRUE)], [nullable |-> PyBool(FALSE)]} }

\* Schemas with one more level: a leaf under properties, items,
\* additionalProperties or a keyword process_node does not follow
OneLevel(children) ==
    { [type |-> TypeName("object"), nullable |-> PyBool(TRUE), properties |-> [a |-> c]]
        : c \in children }
    \cup { [type |-> TypeName("array"), items |-> c] : c \in children }
    \cup { [type |-> TypeName("object"), additionalProperties |-> c] : c \in children }
    \cup { [not |-> c] : c \in children }
    \cup { [type |-> TypeName("object"), additionalProperties |-> PyBool(TRUE)] }

NullableSchemas ==
    LeafNodes \cup OneLevel(LeafNodes)
    \cup OneLevel({ [type |-> TypeName("array"), nullable |-> PyBool(TRUE), items |-> c]
                      : c \in LeafNodes })

\* SchemaValidator()._process_nullable_fields(schema)
ProcessNullableFields ==
    \E schema \in NullableSchemas :
        LET call == _process_nullable_fields_call(schema)
        IN  /\ vrLast' = [op |-> "_process_nullable_fields", schema |-> schema,
                          returned |-> call.returned, schema_after |-> call.schema]
            /\ UNCHANGED vr

----------------------------------------------------------------------------
(* Results a summary is computed over *)

ValidationSamples ==
    { [status_code |-> VRNew(ok, ""), headers |-> VRNew(TRUE, "")] : ok \in BOOLEAN }

ResultSamples ==
    { not_found_result("/missing", "GET") }
    \cup { transport_failure_result("/users", "GET", Timeout, d) : d \in 1..2 }
    \cup { response_result("/users", "GET", ROk, v, d,
                           [method |-> "GET", endpoint |-> "/users"],
                           endpoint_info("/users", "GET", OpGet))
           : v \in ValidationSamples, d \in 1..2 }

SummaryInit ==
    /\ results \in UNION { [1..n -> ResultSamples] : n \in 0..MaxResults }
    /\ engCall = NoEngCall

----------------------------------------------------------------------------
(* Specifications *)

IdleHttp == max_retries = MaxRetriesBound /\ httpCall = NoCall
IdleVR == vr = VRNew(TRUE, "") /\ vrLast = NoVRCall
IdleEngine ==
    /\ parser = Parser(Specification(<<>>))
    /\ config = [stop_on_first_failure |-> FALSE, delay_between_requests |-> 0]
    /\ results = <<>>
    /\ engCall = NoEngCall

\* The validation engine
Init == EngineInit /\ httpCall = NoCall /\ IdleVR

EngValidateEndpoint ==
    ValidateEndpoint /\ UNCHANGED <<max_retries, httpCall, vr, vrLast, parser, config>>
EngValidateAllEndpoints ==
    ValidateAllEndpoints /\ UNCHANGED <<max_retries, httpCall, vr, vrLast, parser, config>>
EngGetSummary ==
    GetSummary /\ UNCHANGED <<max_retries, httpCall, vr, vrLast, parser, config>>

Next == EngValidateEndpoint \/ EngValidateAllEndpoints \/ EngGetSummary

Spec == Init /\ [][Next]_vars

\* HTTPClient.request alone
HttpSpecInit == HttpInit /\ IdleVR /\ IdleEngine

HttpNext ==
    Request /\ UNCHANGED <<max_retries, vr, vrLast, parser, config, results, engCall>>

HttpSpec == HttpSpecInit /\ [][HttpNext]_vars

\* One ValidationResult object
VRSpecInit == VRInit /\ IdleHttp /\ IdleEngine

VRAddError ==
    AddError /\ UNCHANGED <<max_retries, httpCall, parser, config, results, engCall>>
VRAddWarning ==
    AddWarning /\ UNCHANGED <<max_retries, httpCall, parser, config, results, engCall>>

VRNext == VRAddError \/ VRAddWarning

VRSpec == VRSpecInit /\ [][VRNext]_vars

\* get_summary over a list of results
SummarySpecInit ==
    /\ SummaryInit /\ IdleHttp /\ IdleVR
    /\ parser = Parser(Specification(<<>>))
    /\ config = [stop_on_first_failure |-> FALSE, delay_between_requests |-> 0]

SummaryNext ==
    GetSummary /\ UNCHANGED <<max_retries, httpCall, vr, vrLast, parser, config>>

SummarySpec == SummarySpecInit /\ [][SummaryNext]_vars

\* The three validators, each call on its own
ValidatorSpecInit == IdleVR /\ IdleHttp /\ IdleEngine

ValSchemaValidate ==
    SchemaValidate /\ UNCHANGED <<max_retries, httpCall, parser, config, results, engCall>>
ValStatusValidate ==
    StatusValidate /\ UNCHANGED <<max_retries, httpCall, parser, config, results, engCall>>
ValHeaderValidate ==
    HeaderValidate /\ UNCHANGED <<max_retries, httpCall, parser, config, results, engCall>>

ValidatorNext == ValSchemaValidate \/ ValStatusValidate \/ ValHeaderValidate

ValidatorSpec == ValidatorSpecInit /\ [][ValidatorNext]_vars

\* OpenAPIParser.get_all_endpoints alone, on the parser of any specification
ParserSpecInit ==
    /\ \E paths \in PathsDicts : parser = Parser(Specification(paths))
    /\ config = [stop_on_first_failure |-> FALSE, delay_between_requests |-> 0]
    /\ results = <<>>
    /\ engCall = NoEngCall
    /\ IdleHttp /\ IdleVR

ParserNext ==
    GetAllEndpoints
    /\ UNCHANGED <<max_retries, httpCall, vr, vrLast, parser, config, results>>

ParserSpec == ParserSpecInit /\ [][ParserNext]_vars

\* The validate command, run once on the parser of any specification
CommandSpecInit == EngineInit /\ httpCall = NoCall /\ IdleVR

CommandNext ==
    ValidateCommand /\ UNCHANGED <<max_retries, httpCall, vr, vrLast, parser, config>>

CommandSpec == CommandSpecInit /\ [][CommandNext]_vars

\* SchemaValidator.validate called with the full specification, on schemas whose
\* check can raise
ResolverNext ==
    SchemaValidateWithSpec
    /\ UNCHANGED <<max_retries, httpCall, parser, config, results, engCall>>

ResolverSpec == ValidatorSpecInit /\ [][ResolverNext]_vars

\* SchemaValidator._process_nullable_fields alone
NormalizeNext ==
    ProcessNullableFields
    /\ UNCHANGED <<max_retries, httpCall, parser, config, results, engCall>>

NormalizeSpec == ValidatorSpecInit /\ [][NormalizeNext]_vars

----------------------------------------------------------------------------
(* Claims about HTTPClient.request (HttpSpec) *)

Called == httpCall.outcome # "none"

AllFail(plan, n) == \A k \in 1..(n + 1) : IsError(plan[k])

\* C1: with max_retries = N >= 0 and a transport that fails on every attempt,
\* request makes exactly N+1 attempts, sleeps 2^k after failed attempt k for
\* k = 0..N-1 only (nothing after the last attempt, 2^N - 1 in total) and then
\* raises the transport error of the last attempt.
C1_RetryBudget ==
    (Called /\ max_retries >= 0 /\ AllFail(httpCall.plan, max_retries)) =>
        LET ev == httpCall.events
            N == max_retries
        IN  /\ Len(SelectKind(ev, "attempt")) = N + 1
            /\ Len(ev) = 2 * N + 1
            /\ \A k \in 0..N : ev[2 * k + 1] = AttemptEvent(k, httpCall.plan[k + 1])
            /\ \A k \in 0..(N - 1) : ev[2 * k + 2] = SleepEvent(Pow2(k))
            /\ SumSeq(SleepTimes(ev)) = Pow2(N) - 1
            /\ httpCall.outcome = "raise"
            /\ httpCall.value = httpCall.plan[N + 1]

\* The spec's example: max_retries = 3, four failed attempts, 1 + 2 + 4 = 7 slept,
\* and the last of two different errors is the one raised.
C1_Witness ==
    /\ Called /\ max_retries = 3 /\ AllFail(httpCall.plan, 3)
    /\ Len(SelectKind(httpCall.events, "attempt")) = 4
    /\ SleepTimes(httpCall.events) = <<1, 2, 4>>
    /\ httpCall.plan[1] # httpCall.plan[4]
    /\ httpCall.outcome = "raise" /\ httpCall.value = httpCall.plan[4]

\* C2: the first attempt that receives a response of any status (5xx included)
\* ends the call with that response, no attempt and no sleep follows it, and
\* every retry and every sleep directly follows a transport-level failure.
C2_ResponseEndsCall ==
    Called =>
        LET ev == httpCall.events
            plan == httpCall.plan
        IN  /\ \A i \in 1..Len(ev) :
                  (ev[i].kind = "attempt" /\ IsResponse(plan[ev[i].n + 1])) =>
                      /\ i = Len(ev)
                      /\ httpCall.outcome = "return"
                      /\ httpCall.value = plan[ev[i].n + 1]
            /\ \A i \in 1..Len(ev) :
                  (ev[i].kind = "attempt" /\ ev[i].n > 0) => IsError(plan[ev[i].n])
            /\ \A i \in 1..Len(ev) :
                  ev[i].kind = "sleep" =>
                      /\ i > 1 /\ i < Len(ev)
                      /\ ev[i - 1].kind = "attempt"
                      /\ IsError(plan[ev[i - 1].n + 1])
            /\ \A k \in 1..(max_retries + 1) :
                  (IsResponse(plan[k]) /\ \A j \in 1..(k - 1) : IsError(plan[j])) =>
                      /\ Len(SelectKind(ev, "attempt")) = k
                      /\ httpCall.outcome = "return" /\ httpCall.value = plan[k]

\* A 500 received on the second attempt, after one transport failure, is returned.
C2_Witness ==
    /\ Called /\ httpCall.outcome = "return"
    /\ IsResponse(httpCall.value) /\ httpCall.value.status_code = 500
    /\ Len(httpCall.events) = 3
    /\ IsResponse(httpCall.plan[3])

----------------------------------------------------------------------------
(* Claims about ValidationResult (VRSpec) *)

\* C10: after any sequence of add_error and add_warning calls, a non-empty errors
\* list implies valid = false, and add_warning changes neither valid nor errors.
C10_ErrorsImplyInvalid ==
    /\ Len(vr.errors) > 0 => ~vr.valid
    /\ vrLast.op = "add_warning" =>
          /\ vr.valid = vrLast.before.valid
          /\ vr.errors = vrLast.before.errors
          /\ Len(vr.warnings) = Len(vrLast.before.warnings) + 1

\* A result constructed valid, given an error and then a warning.
C10_Witness ==
    /\ vrLast.op = "add_warning"
    /\ Len(vr.errors) = 1 /\ Len(vr.warnings) = 1 /\ ~vr.valid

\* A result constructed valid that only received warnings stays valid.
C10_WitnessWarningsOnly ==
    /\ vrLast.op = "add_warning"
    /\ Len(vr.errors) = 0 /\ Len(vr.warnings) = MaxItems /\ vr.valid

----------------------------------------------------------------------------
(* Claims about get_summary (SummarySpec) *)

Summarised == engCall.op = "get_summary"

\* C3: get_summary satisfies passed + failed = total and 0 <= success_rate <= 100
\* with success_rate = 100 * passed / total; over no results it returns total,
\* passed, failed and success_rate all 0 and a zero or absent average response time.
C3_SummaryInvariants ==
    Summarised =>
        LET summary == engCall.value
            rate == summary.success_rate
        IN  /\ summary.total = Len(results)
            /\ summary.passed + summary.failed = summary.total
            /\ summary.passed >= 0 /\ summary.failed >= 0
            /\ rate.den > 0
            /\ 0 <= rate.num /\ rate.num <= 100 * rate.den
            /\ rate.num * summary.total = 100 * summary.passed * rate.den
            /\ results = <<>> =>
                  /\ summary.total = 0 /\ summary.passed = 0 /\ summary.failed = 0
                  /\ rate.num = 0
                  /\ "average_response_time" \in DOMAIN summary =>
                        summary.average_response_time.num = 0

\* A summary over three results of which one passed, one failed its validations
\* and one was never built from a response.
C3_Witness ==
    /\ Summarised /\ Len(results) = 3
    /\ engCall.value.passed = 1 /\ engCall.value.failed = 2
    /\ \E i \in 1..3 : "error" \in DOMAIN results[i]
    /\ \E i \in 1..3 : "validations" \in DOMAIN results[i] /\ ~results[i].success
    /\ engCall.value.success_rate = Rational(100, 3)

\* A summary over no results.
C3_WitnessEmpty ==
    /\ Summarised /\ results = <<>>
    /\ engCall.value.total = 0 /\ "average_response_time" \notin DOMAIN engCall.value

----------------------------------------------------------------------------
(* Claims about the validation engine (Spec) *)

\* The specification document declares an operation for (path, method): the path
\* item holds a non-empty operation under the lower-case method
SpecDeclares(prs, path, method) ==
    \E i \in 1..Len(prs.paths) :
        /\ prs.paths[i].key = path
        /\ \E j \in 1..Len(prs.paths[i].value) :
              /\ prs.paths[i].value[j].key = Lower(method)
              /\ Truthy(prs.paths[i].value[j].value)

\* The path item of path holds some key that spells method in any case
SpecMentions(prs, path, method) ==
    \E i \in 1..Len(prs.paths) :
        /\ prs.paths[i].key = path
        /\ \E j \in 1..Len(prs.paths[i].value) :
              Lower(prs.paths[i].value[j].key) = Lower(method)

EndpointCalled == engCall.op = "validate_endpoint"
AllCalled == engCall.op = "validate_all_endpoints"

\* What the HTTP client does for the transport behaviour env
Transport(env) == request(max_retries, env.plan)

\* C4: with stop_on_first_failure off, validate_all_endpoints returns one result
\* per entry of get_all_endpoints(), result i carrying the path and method of
\* entry i, and no request of a later entry is sent before the result of an
\* earlier one exists.
C4_OneResultPerEndpoint ==
    (AllCalled /\ ~config.stop_on_first_failure) =>
        LET endpoints == get_all_endpoints(parser)
            ev == engCall.events
        IN  /\ engCall.outcome = "return"
            /\ Len(engCall.value) = Len(endpoints)
            /\ \A i \in 1..Len(endpoints) :
                  /\ engCall.value[i].path = endpoints[i].path
                  /\ engCall.value[i].method = endpoints[i].method
            /\ \A j, k \in 1..Len(ev) :
                  (ev[j].kind = "attempt" /\ ev[k].kind = "result"
                   /\ ev[k].endpoint < ev[j].endpoint) => k < j

\* C5: with stop_on_first_failure on, validate_all_endpoints returns the prefix of
\* the full per-endpoint sequence that ends with the first result whose success is
\* false, and sends no request for a later endpoint.
C5_StopOnFirstFailure ==
    (AllCalled /\ config.stop_on_first_failure) =>
        LET endpoints == get_all_endpoints(parser)
            full == validate_all_endpoints(parser, max_retries,
                        [config EXCEPT !.stop_on_first_failure = FALSE],
                        engCall.test_data, engCall.envs)
            ev == engCall.events
        IN  /\ engCall.outcome = "return"
            /\ full.outcome = "return"
            /\ Len(engCall.value) <= Len(endpoints)
            /\ engCall.value = SubSeq(full.results, 1, Len(engCall.value))
            /\ \A i \in 1..(Len(engCall.value) - 1) : engCall.value[i].success
            /\ Len(engCall.value) < Len(endpoints) =>
                  ~engCall.value[Len(engCall.value)].success
            /\ (\E i \in 1..Len(full.results) : ~full.results[i].success) =>
                  ~engCall.value[Len(engCall.value)].success
            /\ \A j \in 1..Len(ev) :
                  ev[j].kind = "attempt" => ev[j].endpoint <= Len(engCall.value)

\* C6: a transport error for a declared endpoint does not leave validate_endpoint:
\* the call returns a result with success false, the elapsed time, the transport
\* error and empty validations, request and response maps; and with
\* stop_on_first_failure off validate_all_endpoints still returns a result for
\* every endpoint.
C6_TransportErrorBecomesFailure ==
    /\ (/\ EndpointCalled
        /\ SpecDeclares(parser, engCall.path, engCall.method)
        /\ Transport(engCall.env).outcome = "raise") =>
           /\ engCall.outcome = "return"
           /\ ~engCall.value.success
           /\ engCall.value.duration = Elapsed(Transport(engCall.env).events, engCall.env)
           /\ engCall.value.error =
                 [text |-> "Request failed", cause |-> Transport(engCall.env).value.err]
           /\ engCall.value.validations = EmptyDict
           /\ engCall.value.request_details = EmptyDict
           /\ engCall.value.response_details = EmptyDict
    /\ (/\ AllCalled /\ ~config.stop_on_first_failure
        /\ \E i \in 1..Len(engCall.envs) : Transport(engCall.envs[i]).outcome = "raise") =>
           /\ engCall.outcome = "return"
           /\ Len(engCall.value) = Len(get_all_endpoints(parser))
           /\ \A i \in 1..Len(engCall.envs) :
                 (/\ Transport(engCall.envs[i]).outcome = "raise"
                  /\ SpecDeclares(parser, engCall.value[i].path, engCall.value[i].method)) =>
                     /\ ~engCall.value[i].success
                     /\ engCall.value[i].validations = EmptyDict

\* C7: validate_endpoint for a (path, method) the specification does not declare
\* returns success false, the error "Endpoint not found in specification" and
\* duration 0, and attempts no HTTP request.
C7_UndeclaredEndpoint ==
    (EndpointCalled /\ ~SpecMentions(parser, engCall.path, engCall.method)) =>
        /\ engCall.outcome = "return"
        /\ ~engCall.value.success
        /\ engCall.value.error.text = "Endpoint not found in specification"
        /\ engCall.value.duration = 0
        /\ engCall.events = <<>>

\* C8: a result built from a received response has success true exactly when
\* every entry of its validations map is valid; for the declared GET /users and
\* the body {"id": "x", "name": "Ann"} success is false and the schema entry holds
\* exactly one error, a type mismatch at path ["id"].
C8_SuccessIsConjunction ==
    (/\ EndpointCalled
     /\ SpecDeclares(parser, engCall.path, engCall.method)
     /\ Transport(engCall.env).outcome = "return") =>
        /\ engCall.outcome = "return"
        /\ "validations" \in DOMAIN engCall.value
        /\ engCall.value.success <=>
              \A k \in DOMAIN engCall.value.validations :
                  engCall.value.validations[k].valid
        /\ (/\ engCall.path = "/users" /\ engCall.method = "GET"
            /\ declared_operation(parser, "/users", "GET") = OpGet
            /\ Transport(engCall.env).value = RBadId) =>
               /\ ~engCall.value.success
               /\ Len(engCall.value.validations.schema.errors) = 1
               /\ engCall.value.validations.schema.errors[1].details.path = <<"id">>
               /\ engCall.value.validations.schema.errors[1].details.validator = "type"

\* C9: for a received response the validations map holds a status-code result
\* checked against the declared status codes and a header result; it holds a
\* schema result only when the status is in [200, 300), checked against the
\* schema declared for that status code.
C9_ValidatorsRun ==
    (/\ EndpointCalled
     /\ SpecDeclares(parser, engCall.path, engCall.method)
     /\ Transport(engCall.env).outcome = "return") =>
        LET response == Transport(engCall.env).value
        IN  /\ engCall.outcome = "return"
            /\ {"status_code", "headers"} \subseteq DOMAIN engCall.value.validations
            /\ DOMAIN engCall.value.validations \subseteq {"status_code", "headers", "schema"}
            /\ engCall.value.validations.status_code =
                  to_dict(StatusCodeValidator_validate(response,
                      get_expected_status_codes(parser, engCall.path, engCall.method)))
            /\ "schema" \in DOMAIN engCall.value.validations =>
                  /\ 200 <= response.status_code /\ response.status_code < 300
                  /\ engCall.value.validations.schema =
                        to_dict(SchemaValidator_validate(response,
                            get_response_schema(parser, engCall.path, engCall.method,
                                                Str(response.status_code)),
                            parser.spec))

\* C11: every result validate_endpoint or validate_all_endpoints produces is
\* appended to self.results: a validate_endpoint call returns a result and leaves
\* results one longer, ending with it; a validate_all_endpoints call returns its
\* list and leaves results longer by that list; so the total of a summary is the
\* number of results produced since construction.
C11_ResultsAccumulate ==
    [][ /\ engCall'.op = "validate_endpoint" =>
              /\ engCall'.outcome = "return"
              /\ results' = Append(results, engCall'.value)
        /\ engCall'.op = "validate_all_endpoints" =>
              /\ engCall'.outcome = "return"
              /\ results' = results \o engCall'.value
        /\ engCall'.op = "get_summary" =>
              engCall'.value.total = Len(results) ]_vars

----------------------------------------------------------------------------
(* Claims about the validators (ValidatorSpec) *)

SchemaCalled == vrLast.op = "SchemaValidator.validate"

\* The violations of the expected schema in the response body, before any is dropped
Violations(response, expected_schema) ==
    IF response.body = NoBody \/ ~Truthy(expected_schema) THEN <<>>
    ELSE iter_errors(response.body, _process_nullable_fields(expected_schema), <<>>, <<>>,
                     _process_nullable_fields(expected_schema))

\* A violation that may be dropped: the value is null, and the keyword is type on
\* a path through readOnly or the last path segment is on the allow-list
Suppressible(e) ==
    /\ e.instance = JNull
    /\ \/ e.validator = "type" /\ \E i \in 1..Len(e.schema_path) : e.schema_path[i] = "readOnly"
       \/ /\ e.absolute_path # <<>>
          /\ e.absolute_path[Len(e.absolute_path)]
                \in {"next", "previous", "url", "description", "results"}

\* The entry _validate_against_schema reports for the violation e
Reported(e) ==
    Entry(e.validator, [path |-> e.absolute_path, schema_path |-> e.schema_path,
                        validator |-> e.validator])

\* C12: SchemaValidator.validate returns valid = false exactly when the response
\* is classified as not JSON, or its body does not parse, or some violation is
\* not suppressed; a result without errors is valid whatever warnings it holds.
C12_InvalidIffFailure ==
    SchemaCalled =>
        LET found == Violations(vrLast.response, vrLast.expected_schema)
        IN  /\ ~vr.valid <=>
                  \/ ~_is_json_response(vrLast.response)
                  \/ vrLast.response.body = NoBody
                  \/ \E i \in 1..Len(found) : ~Suppressible(found[i])
            /\ vr.errors = <<>> => vr.valid

\* A page whose next is null: the violation is suppressed, a warning is added and
\* the result is valid.
C12_Witness ==
    /\ SchemaCalled /\ vrLast.expected_schema = PageSchema
    /\ Len(Violations(vrLast.response, vrLast.expected_schema)) = 1
    /\ vr.valid /\ vr.errors = <<>> /\ Len(vr.warnings) = 1

\* A body with a violation that is reported makes the result invalid.
C12_WitnessInvalid ==
    /\ SchemaCalled /\ vrLast.response.body = AnnBadId
    /\ vrLast.expected_schema = UserSchema
    /\ ~vr.valid /\ Len(vr.errors) = 1

\* The content type of the response, lower-cased
ContentTypeOf(response) == Lower(headers_get(response.headers, "content-type", ""))

\* The lower-cased content type contains the text json
ContainsJson(content_type) ==
    content_type \in {"application/json", "application/json; charset=utf-8",
                      "text/json", "application/vnd.api+json"}

NotJsonResult(response) ==
    add_error(VRNew(TRUE, ""), "Response is not JSON",
              [content_type |-> headers_get(response.headers, "content-type", "unknown"),
               status_code |-> response.status_code])

\* C13: a response is classified as JSON exactly when its lower-cased content type
\* contains json; any other response gets the single error "Response is not JSON"
\* with content type and status, and no warning.
C13_JsonIffContainsJson ==
    SchemaCalled =>
        IF ContainsJson(ContentTypeOf(vrLast.response))
        THEN \A i \in 1..Len(vr.errors) : vr.errors[i].message # "Response is not JSON"
        ELSE vr = NotJsonResult(vrLast.response)

C14_WitnessReported ==
    /\ SchemaCalled /\ vrLast.response.body = JNull
    /\ vrLast.expected_schema = UserSchema
    /\ Len(vr.errors) = 1 /\ vr.errors[1].details.path = <<>>

StatusCalled == vrLast.op = "StatusCodeValidator.validate"

\* The expected code, an integer or a string, reads as the status
SameCode(code, status) == code \in {PyInt(status), PyStr(Str(status))}

\* C15: StatusCodeValidator.validate is valid when no expected code is given;
\* otherwise it is valid exactly when some expected code, integer or string, reads
\* as the response status; on a mismatch the result is invalid and records the
\* actual code, the expected codes and the reason phrase.
C15_StatusCodeMatch ==
    StatusCalled =>
        LET status == vrLast.response.status_code
            expected == vrLast.expected_codes
        IN  /\ expected = <<>> => vr.valid
            /\ expected # <<>> =>
                  (vr.valid <=> \E i \in 1..Len(expected) : SameCode(expected[i], status))
            /\ ~vr.valid =>
                  vr.details = [actual_code |-> status, expected_codes |-> expected,
                                reason |-> reason(vrLast.response)]

\* The string "200" and "default" expected, status 200: valid.
C15_Witness ==
    /\ StatusCalled /\ vrLast.response.status_code = 200
    /\ vrLast.expected_codes = <<PyStr("default"), PyStr("200")>>
    /\ vr.valid

\* Only "default" expected: invalid, with the reason phrase.
C15_WitnessMismatch ==
    /\ StatusCalled /\ vrLast.response.status_code = 404
    /\ vrLast.expected_codes = <<PyStr("default")>>
    /\ ~vr.valid /\ vr.details.reason = "Not Found"

HeaderCalled == vrLast.op = "HeaderValidator.validate"

\* The value of the response header of that name, whatever its case, or "absent"
ActualHeader(response, name) ==
    LET at == {i \in 1..Len(response.headers) : Lower(response.headers[i].name) = Lower(name)}
    IN  IF at = {} THEN "absent" ELSE response.headers[CHOOSE i \in at : TRUE].value

\* The expected header is missing, or has another value than the concrete one expected
Unmet(response, expected) ==
    \/ ActualHeader(response, expected.key) = "absent"
    \/ expected.value # PyNone /\ ActualHeader(response, expected.key) # expected.value.v

\* C16: HeaderValidator.validate compares header names without regard to case; it
\* is valid exactly when every expected header is present and every concrete
\* expected value equals the actual one, and adds one error per header that is
\* missing or differs.
C16_ExpectedHeaders ==
    HeaderCalled =>
        LET expected == vrLast.expected_headers
            unmet == {i \in 1..Len(expected) : Unmet(vrLast.response, expected[i])}
        IN  /\ vr.valid <=> unmet = {}
            /\ Len(vr.errors) = Cardinality(unmet)

\* X-API-Version: 1.0 expected, x-api-version: 2.0 sent, and X-Frame-Options
\* expected and absent: two errors.
C16_Witness ==
    /\ HeaderCalled
    /\ vrLast.expected_headers = <<Item("X-API-Version", PyStr("1.0")),
                                   Item("X-Frame-Options", PyNone)>>
    /\ vrLast.response.headers = <<Header("x-api-version", "2.0")>>
    /\ ~vr.valid /\ Len(vr.errors) = 2

\* x-api-version expected with any value, X-API-Version sent: valid.
C16_WitnessCase ==
    /\ HeaderCalled
    /\ vrLast.expected_headers = <<Item("x-api-version", PyNone)>>
    /\ vrLast.response.headers = <<Header("X-API-Version", "1.0")>>
    /\ vr.valid /\ vr.errors = <<>>

\* The security headers that call for a warning: the absent ones, and
\* x-content-type-options when its value is not nosniff
SecurityFindings(response) ==
    { h \in {"x-content-type-options", "x-frame-options", "x-xss-protection",
             "strict-transport-security", "content-security-policy"} :
        \/ ActualHeader(response, h) = "absent"
        \/ h = "x-content-type-options" /\ ActualHeader(response, h) # "nosniff" }

\* C17: on every call of HeaderValidator.validate, also one without expected
\* headers, each of the five security headers that is absent gives one warning, as
\* does x-content-type-options with a value other than nosniff.
C17_SecurityHeadersAlways ==
    HeaderCalled => Len(vr.warnings) = Cardinality(SecurityFindings(vrLast.response))

----------------------------------------------------------------------------
(* Claims about the normalization of schemas (NormalizeSpec) *)

NormalizeCalled == vrLast.op = "_process_nullable_fields"

\* C18: normalizing is a function of the schema, normalizing the normalized schema
\* gives it back, and the schema passed in has afterwards the value it had.
C18_NormalizeIdempotent ==
    NormalizeCalled =>
        /\ vrLast.returned = _process_nullable_fields(vrLast.schema)
        /\ _process_nullable_fields(vrLast.returned) = vrLast.returned
        /\ vrLast.schema_after = vrLast.schema

\* A nullable string: the returned schema differs from the one passed in, which
\* is unchanged.
C18_Witness ==
    /\ NormalizeCalled
    /\ vrLast.schema = [type |-> TypeName("string"), nullable |-> PyBool(TRUE)]
    /\ vrLast.returned # vrLast.schema
    /\ vrLast.schema_after = vrLast.schema

\* after is before with every node that has nullable: true and a type, reached
\* through properties, items and additionalProperties, given the type [T, "null"]
\* and no nullable keyword, and with nothing else changed. A type that is already
\* a list keeps its names and holds null once.
RECURSIVE IsNormalizationOf(_, _)
IsNormalizationOf(after, before) ==
    IF "py" \in DOMAIN before THEN after = before
    ELSE LET hit == /\ "nullable" \in DOMAIN before /\ before["nullable"] = PyBool(TRUE)
                    /\ "type" \in DOMAIN before
         IN  /\ DOMAIN after = DOMAIN before \ (IF hit THEN {"nullable"} ELSE {})
             /\ \A k \in DOMAIN after :
                   CASE k = "type" /\ hit ->
                          IF "name" \in DOMAIN before[k]
                          THEN after[k] = [list |-> <<before[k].name, "null">>]
                          ELSE /\ "list" \in DOMAIN after[k]
                               /\ SeqToSet(after[k].list) = SeqToSet(before[k].list) \cup {"null"}
                               /\ Len(after[k].list) = Cardinality(SeqToSet(after[k].list))
                     [] k = "properties" ->
                          /\ DOMAIN after[k] = DOMAIN before[k]
                          /\ \A p \in DOMAIN before[k] : IsNormalizationOf(after[k][p], before[k][p])
                     [] k \in {"items", "additionalProperties"} ->
                          IsNormalizationOf(after[k], before[k])
                     [] OTHER -> after[k] = before[k]

\* C19: the returned schema is the schema passed in with every nullable typed node
\* under properties, items and additionalProperties rewritten to the type
\* [T, "null"] without the nullable keyword, and nothing else changed.
C19_NormalizeRewrites ==
    NormalizeCalled => IsNormalizationOf(vrLast.returned, vrLast.schema)

\* A nullable object with a nullable string property: both nodes are rewritten.
C19_Witness ==
    /\ NormalizeCalled
    /\ vrLast.schema = [type |-> TypeName("object"), nullable |-> PyBool(TRUE),
                        properties |-> [a |-> [type |-> TypeName("string"),
                                               nullable |-> PyBool(TRUE)]]]
    /\ vrLast.returned = [type |-> TypeList(<<"object", "null">>),
                          properties |-> [a |-> [type |-> TypeList(<<"string", "null">>)]]]

\* A nullable node under not, a keyword that is not followed, stays as it is.
C19_WitnessNotFollowed ==
    /\ NormalizeCalled
    /\ vrLast.schema = [not |-> [type |-> TypeName("string"), nullable |-> PyBool(TRUE)]]
    /\ vrLast.returned = vrLast.schema

----------------------------------------------------------------------------
(* Claims about the parser (ParserSpec) *)

ListCalled == engCall.op = "get_all_endpoints"

\* The (path, key) positions of the document whose key is one of the seven verbs,
\* in whatever case it is written
DeclaredPairs ==
    { ij \in (1..MaxPaths + 1) \X (1..MaxMethods + 1) :
        /\ ij[1] <= Len(parser.paths)
        /\ ij[2] <= Len(parser.paths[ij[1]].value)
        /\ Lower(parser.paths[ij[1]].value[ij[2]].key)
              \in {"get", "post", "put", "delete", "patch", "head", "options"} }

\* The place of a pair in declaration order: path order, then order within the path
Place(ij) ==
    Cardinality({ kl \in DeclaredPairs :
                    kl[1] < ij[1] \/ (kl[1] = ij[1] /\ kl[2] <= ij[2]) })

\* C20: get_all_endpoints returns one descriptor for each (path, method) pair
\* whose key is one of the seven verbs and none for any other key, in declaration
\* order: path order, then the order of the methods within the path.
C20_ListEndpoints ==
    ListCalled =>
        /\ Len(engCall.value) = Cardinality(DeclaredPairs)
        /\ \A ij \in DeclaredPairs :
              /\ engCall.value[Place(ij)].path = parser.paths[ij[1]].key
              /\ engCall.value[Place(ij)].method
                    = Upper(parser.paths[ij[1]].value[ij[2]].key)

\* Two paths, the first with a parameters key and a POST, the second with a get:
\* two descriptors, POST /users first.
C20_Witness ==
    /\ ListCalled
    /\ parser.paths = << Item("/users", <<Item("parameters", <<>>), Item("POST", OpPost)>>),
                         Item("/orders/{id}", <<Item("get", OpGet)>>) >>
    /\ Len(engCall.value) = 2
    /\ engCall.value[1].path = "/users" /\ engCall.value[1].method = "POST"
    /\ engCall.value[2].path = "/orders/{id}" /\ engCall.value[2].method = "GET"

----------------------------------------------------------------------------
(* Further claims about get_summary (SummarySpec) *)

\* The results that carry a response_time
Timed(rs) == {i \in 1..Len(rs) : "response_time" \in DOMAIN rs[i]}

\* C21: the average response time of a summary is the mean of response_time over
\* the results that carry one, and 0 when none does.
C21_AverageOverTimed ==
    (Summarised /\ "average_response_time" \in DOMAIN engCall.value) =>
        LET average == engCall.value.average_response_time
            sum == SumSeq([i \in 1..Len(results) |->
                             IF i \in Timed(results) THEN results[i].response_time ELSE 0])
        IN  /\ average.den > 0
            /\ IF Timed(results) = {} THEN average.num = 0
               ELSE average.num * Cardinality(Timed(results)) = sum * average.den

----------------------------------------------------------------------------
(* Claims about the validate command (CommandSpec) *)

Commanded == engCall.op = "validate"

C22_WitnessLookup ==
    /\ Commanded /\ engCall.loads /\ engCall.endpoint = PyNone
    /\ Len(get_all_endpoints(parser)) > 0
    /\ engCall.value.exception = "AttributeError" /\ engCall.value.status = 1

----------------------------------------------------------------------------
(* Further claims about SchemaValidator (ValidatorSpec) *)

\* The node of the schema that a schema path leads to
RECURSIVE NodeAt(_, _)
NodeAt(schema, schema_path) ==
    IF schema_path = <<>> THEN schema
    ELSE NodeAt(schema[Head(schema_path)], Tail(schema_path))

\* The violation is a null that is not of the declared type of a field whose
\* schema is marked readOnly: true
NullInReadOnlyField(e, schema) ==
    /\ e.instance = JNull /\ e.validator = "type" /\ e.absolute_path # <<>>
    /\ LET node == NodeAt(schema, SubSeq(e.schema_path, 1, Len(e.schema_path) - 1))
       IN  "readOnly" \in DOMAIN node /\ node["readOnly"] = PyBool(TRUE)

\* C23: a null in a field whose schema is marked readOnly: true, violating the
\* field's type, adds no error for that field.
C23_ReadOnlyNullSuppressed ==
    (SchemaCalled /\ _is_json_response(vrLast.response)
                  /\ vrLast.response.body # NoBody) =>
        LET found == Violations(vrLast.response, vrLast.expected_schema)
        IN  \A i \in 1..Len(found) :
               NullInReadOnlyField(found[i], vrLast.expected_schema) =>
                   \A j \in 1..Len(vr.errors) : vr.errors[j] # Reported(found[i])

----------------------------------------------------------------------------
(* Further claims about the validation engine (Spec) *)

\* The operation declares a JSON schema for the status of the response
DeclaresSchema(operation, response) ==
    /\ "responses" \in DOMAIN operation
    /\ Str(response.status_code) \in DOMAIN operation.responses
    /\ "content" \in DOMAIN operation.responses[Str(response.status_code)]

\* C24: for a response with a status in [200, 300) to a declared endpoint that
\* declares no JSON schema for that status, the validations hold a schema result
\* all the same: with the warnings of the scan when the response is JSON, and
\* invalid when it is not.
C24_SchemaResultWithoutSchema ==
    (/\ EndpointCalled
     /\ SpecDeclares(parser, engCall.path, engCall.method)
     /\ Transport(engCall.env).outcome = "return"
     /\ Transport(engCall.env).value.status_code \in 200..299
     /\ ~DeclaresSchema(declared_operation(parser, engCall.path, engCall.method),
                        Transport(engCall.env).value)) =>
        /\ engCall.outcome = "return"
        /\ "schema" \in DOMAIN engCall.value.validations
        /\ engCall.value.validations.schema =
              to_dict(SchemaValidator_validate(Transport(engCall.env).value, PyNone,
                                               parser.spec))

\* A null, an empty string, an empty object or an empty array
IsEmptyValue(value) ==
    \/ value.t = "null"
    \/ value.t = "string" /\ value.v = ""
    \/ value.t = "object" /\ DOMAIN value.v = {}
    \/ value.t = "array" /\ value.v = <<>>

\* The paths of the empty values in the tree of value, itself at path
RECURSIVE EmptyPlaces(_, _)
EmptyPlaces(value, path) ==
    IF IsEmptyValue(value) THEN {path}
    ELSE IF value.t = "object"
    THEN UNION { EmptyPlaces(value.v[k], Append(path, k)) : k \in DOMAIN value.v }
    ELSE IF value.t = "array"
    THEN UNION { EmptyPlaces(value.v[i], Append(path, IndexStr(i))) : i \in 1..Len(value.v) }
    ELSE {}

\* The paths below the root
EmptyPlacesBelowRoot(body) ==
    IF IsEmptyValue(body) THEN {} ELSE EmptyPlaces(body, <<>>)

ScanMessages ==
    {"Null value found", "Empty string found", "Empty object found", "Empty array found"}

\* C25: the scan adds exactly one warning, tagged with its path, for every null,
\* empty string, empty object and empty array below the root of the parsed body,
\* those inside arrays and inside objects held in arrays included.
C25_ScanFindsEveryEmptyValue ==
    (SchemaCalled /\ _is_json_response(vrLast.response)
                  /\ vrLast.response.body # NoBody) =>
        LET scan == {i \in 1..Len(vr.warnings) : vr.warnings[i].message \in ScanMessages}
        IN  /\ { vr.warnings[i].details.at : i \in scan }
                  = EmptyPlacesBelowRoot(vrLast.response.body)
            /\ Cardinality(scan) = Cardinality(EmptyPlacesBelowRoot(vrLast.response.body))

SpecCalled == vrLast.op = "SchemaValidator.validate(spec)"

\* What the iteration over the violations yields for the call, exceptions included
Iterated ==
    iter_errors(vrLast.response.body, _process_nullable_fields(vrLast.expected_schema),
                <<>>, <<>>,
                IF vrLast.spec = EmptyDict
                THEN _process_nullable_fields(vrLast.expected_schema) ELSE vrLast.spec)

SyntheticMessages == {"Invalid schema", "Validation error", "Unexpected validation error"}

C26_WitnessReference ==
    /\ SpecCalled /\ vrLast.expected_schema = MissingRef
    /\ vrLast.spec = Specification(<<>>)
    /\ ~vr.valid
    /\ vr.errors = << [message |-> "Validation error",
                       details |-> [error_type |-> "RefResolutionError"]] >>

\* C27: every endpoint that get_all_endpoints lists is found by the lookup of
\* validate_endpoint: a validate_all_endpoints call returns, none of its results
\* is the result for an endpoint not found in the specification, and a request is
\* sent for each of them; so also for an operation with an empty body and for a
\* method key in upper case.
C27_ListedEndpointsAreFound ==
    AllCalled =>
        /\ engCall.outcome = "return"
        /\ \A i \in 1..Len(engCall.value) :
              /\ engCall.value[i] # not_found_result(engCall.value[i].path,
                                                     engCall.value[i].method)
              /\ \E j \in 1..Len(engCall.events) :
                    /\ engCall.events[j].kind = "attempt"
                    /\ engCall.events[j].endpoint = i

----------------------------------------------------------------------------
(* A further claim about HTTPClient.request (HttpSpec) *)

\* C28: for every integer max_retries, zero and negative values included,
\* request makes at least one attempt and ends either by returning a response
\* that an attempt received or by raising the transport error of an attempt; it
\* never returns without a response.
C28_AttemptsAtLeastOnce ==
    Called =>
        LET attempts == SelectKind(httpCall.events, "attempt")
        IN  /\ Len(attempts) >= 1
            /\ \/ httpCall.outcome = "return" /\ IsResponse(httpCall.value)
               \/ httpCall.outcome = "raise" /\ IsError(httpCall.value)
            /\ httpCall.value = session_request(httpCall.plan[Len(attempts)])

====
